---- MODULE Spec2Model ----
(***************************************************************************)
(* Torchflower: the exact-match Router and the Torchflower server object   *)
(* (src/src/router.ts), the guard validator library (src/src/guard.ts) and *)
(* the task application of src/example/example.ts.                         *)
(***************************************************************************)
EXTENDS Integers, Sequences, FiniteSets, TLC

VARIABLES
    routes,         \* Router.routes: method -> (path -> handler), both maps partial
    error_handler,  \* Torchflower.error_handler
    server,         \* Torchflower.server: the configuration Bun.serve was given
    listening,      \* Torchflower.listening
    last,           \* the most recent call on the router / app and what it returned
    first,          \* history: the handler of the first route call of each (method, path)
    set_before,     \* history: the handler given to set_error_handler before serve
    guard_v,        \* the validator under evaluation
    guard_x,        \* the value it is applied to
    guard_r         \* the outcome of the application

vars == <<routes, error_handler, server, listening, last, first, set_before,
          guard_v, guard_x, guard_r>>

----------------------------------------------------------------------------
(* Bounds *)

MaxNum == 1       \* number values are 0 .. MaxNum
MaxRoutes == 2    \* route table entries in the router specification

----------------------------------------------------------------------------
(* JavaScript values.  A scalar is [t, s, n]; a value adds the two          *)
(* properties the task shape reads, each a scalar (undefined when missing). *)

Scalar(t, s, n) == [t |-> t, s |-> s, n |-> n]
UndefinedS == Scalar("undefined", "", 0)

Value(sc, name, priority) ==
    [t |-> sc.t, s |-> sc.s, n |-> sc.n, name |-> name, priority |-> priority]
Lift(sc) == Value(sc, UndefinedS, UndefinedS)

Undefined == Lift(UndefinedS)
Null == Lift(Scalar("null", "", 0))
Bool(b) == Lift(Scalar("boolean", "", IF b THEN 1 ELSE 0))
Num(n) == Lift(Scalar("number", "", n))
Str(s) == Lift(Scalar("string", s, 0))
Fn == Lift(Scalar("function", "", 0))
Arr == Lift(Scalar("array", "", 0))
Obj(name, priority) == Value(Scalar("object", "", 0), name, priority)

StrS(s) == Scalar("string", s, 0)
NumS(n) == Scalar("number", "", n)

\* typeof value
typeof(value) ==
    IF value.t \in {"null", "array", "object"} THEN "object" ELSE value.t

\* the truthiness test of `if (value)` / `if (!value)`
Truthy(value) ==
    CASE value.t \in {"undefined", "null"} -> FALSE
      [] value.t = "boolean" -> value.n = 1
      [] value.t = "number" -> value.n # 0
      [] value.t = "string" -> value.s # ""
      [] OTHER -> TRUE

\* a === b
StrictEq(a, b) ==
    IF a.t \in {"object", "array", "function"} THEN FALSE ELSE a = b

----------------------------------------------------------------------------
(* Outcomes of a validator call: a returned value or a thrown failure,      *)
(* together with the validator invocations made, in order.                  *)

Return(value, calls) == [ok |-> TRUE, val |-> value, calls |-> calls]
Throw(calls) == [ok |-> FALSE, val |-> Undefined, calls |-> calls]

\* value.key
GetProp(value, key) ==
    IF value.t \in {"undefined", "null"} THEN Throw(<<>>)
    ELSE IF value.t = "object"
         THEN Return(Lift(IF key = "name" THEN value.name ELSE value.priority), <<>>)
    ELSE IF value.t = "function" /\ key = "name" THEN Return(Str(""), <<>>)
    ELSE Return(Undefined, <<>>)

\* guard.ts assert
assert(condition) ==
    IF condition = FALSE THEN Throw(<<>>) ELSE Return(Undefined, <<>>)

\* guard.ts string, number, bigint, boolean, callback
primitive(kind, value) ==
    IF assert(typeof(value) = kind).ok THEN Return(value, <<>>) ELSE Throw(<<>>)

\* guard.ts literal and string_literal
literal(lit, value) ==
    IF assert(StrictEq(lit, value)).ok THEN Return(value, <<>>) ELSE Throw(<<>>)

\* guard.ts object
object(value) ==
    IF assert(typeof(value) = "object").ok THEN Return(value, <<>>) ELSE Throw(<<>>)

check_rethrow(guard_result) == guard_result

\* guard.ts check: try { return guard(value) } catch { return null }
check(guard_result) ==
    IF guard_result.ok THEN guard_result ELSE Return(Null, guard_result.calls)

or_lhs_only(value, lhs_result, rhs_result) ==
    IF Truthy(lhs_result.val) THEN Return(value, lhs_result.calls)
    ELSE Throw(lhs_result.calls)

\* guard.ts or, given the outcomes of check(lhs)(value) and check(rhs)(value)
or(value, lhs_result, rhs_result) ==
    IF Truthy(lhs_result.val) THEN Return(value, lhs_result.calls)
    ELSE IF Truthy(rhs_result.val)
         THEN Return(value, lhs_result.calls \o rhs_result.calls)
    ELSE Throw(lhs_result.calls \o rhs_result.calls)

and_lhs_only(value, lhs_result, rhs_result) ==
    IF ~Truthy(lhs_result.val) THEN Throw(lhs_result.calls)
    ELSE Return(value, lhs_result.calls)

\* guard.ts and, given the outcomes of check(lhs)(value) and check(rhs)(value)
and(value, lhs_result, rhs_result) ==
    IF ~Truthy(lhs_result.val) THEN Throw(lhs_result.calls)
    ELSE IF ~Truthy(rhs_result.val)
         THEN Throw(lhs_result.calls \o rhs_result.calls)
    ELSE Return(value, lhs_result.calls \o rhs_result.calls)

optional_undefined_only(value, guard_result) ==
    IF value.t = "undefined" THEN Return(Undefined, <<>>) ELSE guard_result

\* guard.ts optional, given the outcome guard(value) would have
optional(value, guard_result) ==
    IF ~Truthy(value) THEN Return(Undefined, <<>>) ELSE guard_result

\* guard.ts record: guard(object(value)), given the outcome of guard
record(value, guard_result) ==
    IF object(value).ok THEN guard_result ELSE Throw(<<>>)

----------------------------------------------------------------------------
(* Validators are terms: <<"string">>, <<"literal", L>>, <<"or", a, b>>,    *)
(* <<"and", a, b>>, <<"optional", g>>, <<"record", g>>, <<"check", g>>,     *)
(* and application closures <<"task_shape">>, <<"const", v>>, <<"fail">>.   *)

is_priority ==
    <<"or", <<"literal", Str("Critical")>>,
            <<"or", <<"literal", Str("Medium")>>, <<"literal", Str("Low")>>>>>>

\* example.ts: the closure given to guard.record
task_shape(name_result, priority_result) ==
    IF ~name_result.ok THEN Throw(name_result.calls)
    ELSE IF ~priority_result.ok
         THEN Throw(name_result.calls \o priority_result.calls)
    ELSE Return(Obj(Scalar(name_result.val.t, name_result.val.s, name_result.val.n),
                    Scalar(priority_result.val.t, priority_result.val.s,
                           priority_result.val.n)),
                name_result.calls \o priority_result.calls)

Prepend(call, result) == [result EXCEPT !.calls = <<call>> \o @]

RECURSIVE Eval(_, _)
\* the outcome of validator(value); every invocation is logged in .calls
Eval(validator, value) ==
    LET kind == validator[1]
        body ==
          CASE kind \in {"string", "number", "bigint", "boolean", "function"} ->
                 primitive(kind, value)
            [] kind = "object" -> object(value)
            [] kind = "literal" -> literal(validator[2], value)
            [] kind = "or" ->
                 or(value, check(Eval(validator[2], value)),
                           check(Eval(validator[3], value)))
            [] kind = "and" ->
                 and(value, check(Eval(validator[2], value)),
                            check(Eval(validator[3], value)))
            [] kind = "optional" -> optional(value, Eval(validator[2], value))
            [] kind = "record" -> record(value, Eval(validator[2], value))
            [] kind = "check" -> check(Eval(validator[2], value))
            [] kind = "task_shape" ->
                 LET n == GetProp(value, "name")
                     p == GetProp(value, "priority")
                 IN  IF ~n.ok THEN Throw(<<>>)
                     ELSE task_shape(Eval(<<"string">>, n.val),
                                     IF p.ok THEN Eval(is_priority, p.val)
                                     ELSE Throw(<<>>))
            [] kind = "const" -> Return(validator[2], <<>>)
            [] OTHER -> Throw(<<>>)
    IN  Prepend(<<validator, value>>, body)

\* whether validator g was invoked during a call
Invoked(g, result) == \E i \in 1..Len(result.calls) : result.calls[i][1] = g
\* the inputs g was invoked on, in order
CallsOf(g, result) == SelectSeq(result.calls, LAMBDA c : c[1] = g)

----------------------------------------------------------------------------
(* Router (router.ts) and the handlers of the task application              *)

Methods == {"GET", "HEAD", "POST", "PUT", "DELETE", "PATCH"}

Response(body, status) == [body |-> body, status |-> status]
NotFound == Response("404 INVALID", 200)
Hello == Response("Hello, World!", 200)
BadRequest == Response("400 Bad Request", 200)
Ok200 == Response("200 OK", 200)
InternalServerError == Response("500 Internal Server Error", 500)
CustomError == Response("custom error", 503)
NoResponse == Response("", 0)

EmptyMap == [k \in {} |-> ""]
Has(map, key) == key \in DOMAIN map
Set(map, key, value) ==
    [k \in DOMAIN map \cup {key} |-> IF k = key THEN value ELSE map[k]]

Pathname_trimmed(url) ==
    IF url.pathname = "/task/" THEN "/task" ELSE url.pathname

\* new URL(req.url).pathname
Pathname(url) == url.pathname

\* example.ts: const task = guard.check(guard.record(...))
task == <<"check", <<"record", <<"task_shape">>>>>>
\* the same validator without the check wrapper
task_unchecked == <<"record", <<"task_shape">>>>

Outcome(threw, resp, invoked, metadata) ==
    [threw |-> threw, resp |-> resp, invoked |-> invoked,
     metadata |-> metadata, errored_by |-> ""]

\* example.ts: the body of the POST "/task" handler around validator(body)
task_handler(metadata) ==
    IF ~metadata.ok THEN Outcome(TRUE, NoResponse, <<>>, Undefined)
    ELSE IF ~Truthy(metadata.val)
         THEN Outcome(FALSE, BadRequest, <<>>, metadata.val)
    ELSE Outcome(FALSE, Ok200, <<>>, metadata.val)

\* handler(req) for the handlers an application registers
RunHandler(handler, req) ==
    LET out ==
          CASE handler = "hello" -> Outcome(FALSE, Hello, <<>>, Undefined)
            [] handler = "task" -> task_handler(Eval(task, req.body))
            [] handler = "task_unchecked" ->
                 task_handler(Eval(task_unchecked, req.body))
    IN  [out EXCEPT !.invoked = <<handler>>]

route_overwrite(table, method, path, handler) ==
    LET outer == IF ~Has(table, method) THEN Set(table, method, EmptyMap)
                 ELSE table
        inner == outer[method]
    IN  [ret |-> ~Has(inner, path),
         routes |-> Set(outer, method, Set(inner, path, handler))]

\* Router.route: the returned boolean and the table afterwards
route(table, method, path, handler) ==
    LET outer == IF ~Has(table, method) THEN Set(table, method, EmptyMap)
                 ELSE table
        inner == outer[method]
    IN  IF Has(inner, path) THEN [ret |-> FALSE, routes |-> outer]
        ELSE [ret |-> TRUE, routes |-> Set(outer, method, Set(inner, path, handler))]

handle_catching(table, req) ==
    IF ~Has(table, req.method) THEN Outcome(FALSE, NotFound, <<>>, Undefined)
    ELSE IF ~Has(table[req.method], Pathname(req.url))
         THEN Outcome(FALSE, NotFound, <<>>, Undefined)
    ELSE LET out == RunHandler(table[req.method][Pathname(req.url)], req)
         IN  IF out.threw THEN [out EXCEPT !.threw = FALSE, !.resp = BadRequest]
             ELSE out

\* Router.handle
handle(table, req) ==
    IF ~Has(table, req.method) THEN Outcome(FALSE, NotFound, <<>>, Undefined)
    ELSE IF ~Has(table[req.method], Pathname(req.url))
         THEN Outcome(FALSE, NotFound, <<>>, Undefined)
    ELSE RunHandler(table[req.method][Pathname(req.url)], req)

\* error_handler(error): the default handler of Torchflower, or an application's
RunErrorHandler(error) ==
    IF error = "default" THEN InternalServerError ELSE CustomError

\* the server started by Torchflower.serve: fetch and its error callback
fetch(table, error, req) ==
    LET out == handle(table, req)
    IN  IF out.threw
        THEN [out EXCEPT !.resp = RunErrorHandler(error), !.errored_by = error]
        ELSE out

----------------------------------------------------------------------------
(* The guard specification: a validator and an input are drawn, and the     *)
(* validator is applied once.                                               *)

Closures == {<<"const", Str("narrowed")>>, <<"const", Num(0)>>, <<"fail">>}

Leaves ==
    {<<"string">>, <<"number">>, <<"object">>,
     <<"literal", Str("Critical")>>, <<"literal", Num(0)>>} \cup Closures

Unary(S) ==
    {<<"optional", g>> : g \in S} \cup {<<"check", g>> : g \in S}
        \cup {<<"record", g>> : g \in S}

Binary(S) ==
    {<<"or", a, b>> : a \in S, b \in S} \cup {<<"and", a, b>> : a \in S, b \in S}

Operands ==
    Leaves \cup Unary(Leaves) \cup {<<"record", <<"task_shape">>>>, is_priority}

Validators ==
    {<<"check", g>> : g \in Operands \cup Binary(Leaves)}
        \cup Binary(Operands)
        \cup {<<"optional", g>> : g \in Operands}
        \cup {<<"record", g>> : g \in Operands \cup {<<"task_shape">>}}

GuardValues ==
    {Undefined, Null, Bool(FALSE), Bool(TRUE), Str(""), Str("x"),
     Str("Critical"), Str("Low"), Fn, Arr}
        \cup {Num(n) : n \in 0..MaxNum}
        \cup {Obj(n, p) : n \in {UndefinedS, StrS("x")},
                          p \in {StrS("Low"), StrS("Urgent")}}

Pending == [done |-> FALSE, out |-> Throw(<<>>)]
Done(result) == [done |-> TRUE, out |-> result]

NoRequest ==
    [method |-> "", url |-> [pathname |-> "", search |-> ""], body |-> Undefined]
NoOutcome ==
    [threw |-> FALSE, resp |-> NoResponse, invoked |-> <<>>,
     metadata |-> Undefined, errored_by |-> ""]
NoCall ==
    [op |-> "", method |-> "", path |-> "", handler |-> "", ret |-> FALSE,
     req |-> NoRequest, out |-> NoOutcome]

NoServer == [started |-> FALSE, error |-> ""]

AppInit ==
    /\ routes = EmptyMap
    /\ error_handler = "default"
    /\ server = NoServer
    /\ listening = FALSE
    /\ last = NoCall
    /\ first = EmptyMap
    /\ set_before = ""

app_vars == <<routes, error_handler, server, listening, last, first, set_before>>
guard_vars == <<guard_v, guard_x, guard_r>>

GuardIdle ==
    /\ guard_v = <<"string">>
    /\ guard_x = Undefined
    /\ guard_r = Pending

Call(kind) ==
    /\ ~guard_r.done
    /\ guard_v[1] = kind
    /\ guard_r' = Done(Eval(guard_v, guard_x))
    /\ UNCHANGED <<guard_v, guard_x>>
    /\ UNCHANGED app_vars

CallCheck == Call("check")
CallOr == Call("or")
CallAnd == Call("and")
CallOptional == Call("optional")
CallRecord == Call("record")

GuardInit ==
    /\ AppInit
    /\ guard_v \in Validators
    /\ guard_x \in GuardValues
    /\ guard_r = Pending

GuardNext == CallCheck \/ CallOr \/ CallAnd \/ CallOptional \/ CallRecord

SpecGuard == GuardInit /\ [][GuardNext]_vars

----------------------------------------------------------------------------
(* Guard claims *)

Applied(kind) == guard_r.done /\ guard_v[1] = kind
Out == guard_r.out
\* validator(value) succeeds with a truthy value
YieldsTruthy(validator, value) ==
    LET r == Eval(validator, value) IN r.ok /\ Truthy(r.val)
Primitive(value) == value.t \in {"undefined", "boolean", "number", "string"}

\* C3: check(v)(x) never throws; it returns v(x) when v(x) succeeds and null
\* when v(x) fails, nested failures included.
C3_CheckNeverThrows ==
    Applied("check") =>
        LET inner == Eval(guard_v[2], guard_x)
        IN  /\ Out.ok
            /\ inner.ok => Out.val = inner.val
            /\ ~inner.ok => Out.val = Null

C3_Witness ==
    /\ Applied("check")
    /\ guard_v[2] = <<"record", <<"task_shape">>>>
    /\ guard_x = Obj(StrS("x"), StrS("Urgent"))
    /\ ~Eval(guard_v[2], guard_x).ok
    /\ Out.val = Null

\* C4: or(a, b)(x) returns the value a yielded when that is truthy, else the
\* value b yielded when that is truthy, else fails.
C4_OrReturnsYielded ==
    Applied("or") =>
        LET a == Eval(guard_v[2], guard_x)
            b == Eval(guard_v[3], guard_x)
        IN  IF a.ok /\ Truthy(a.val) THEN Out.ok /\ Out.val = a.val
            ELSE IF b.ok /\ Truthy(b.val) THEN Out.ok /\ Out.val = b.val
            ELSE ~Out.ok

\* C5: and(a, b)(x) succeeds iff check(a)(x) and check(b)(x) are both truthy,
\* and then returns the input x itself.
C5_AndIffBoth ==
    Applied("and") =>
        /\ Out.ok <=> (YieldsTruthy(guard_v[2], guard_x)
                        /\ YieldsTruthy(guard_v[3], guard_x))
        /\ Out.ok => Out.val = guard_x

C5_Witness ==
    /\ Applied("and")
    /\ guard_v[2] = <<"const", Str("narrowed")>>
    /\ guard_v[3] = <<"string">>
    /\ guard_x = Str("x")
    /\ Out.ok /\ Out.val = Str("x")

C7_RecordRejectsNonObjects ==
    (Applied("record") /\ (guard_x = Null \/ Primitive(guard_x))) =>
        ~Out.ok /\ ~Invoked(guard_v[2], Out)

----------------------------------------------------------------------------
(* The router specification: route and handle on one Router                 *)

Paths == {"/", "/task"}
Handlers == {"hello", "task", "task_unchecked"}
RouterHandlers == {"hello", "task_unchecked"}

ValidBody == Obj(StrS("x"), StrS("Medium"))
InvalidBody == Obj(StrS("x"), StrS("Urgent"))

Url(pathname, search) == [pathname |-> pathname, search |-> search]
Request(method, url, body) == [method |-> method, url |-> url, body |-> body]

RouterRequests ==
    {Request(m, Url(p, q), b) :
        m \in {"GET", "POST", "DELETE", "OPTIONS"}, p \in Paths \cup {"/task/"},
        q \in {"", "?q=1"}, b \in {ValidBody, InvalidBody}}

Bound(table, method, path) == Has(table, method) /\ Has(table[method], path)
Entries(table) ==
    {<<m, p>> \in Methods \X Paths : Bound(table, m, p)}

Called(op, method, path, handler, ret, req, out) ==
    [op |-> op, method |-> method, path |-> path, handler |-> handler,
     ret |-> ret, req |-> req, out |-> out]

\* a call of Router.route, from the application or through get / post
Register(op, method, path, handler) ==
    LET r == route(routes, method, path, handler)
    IN  /\ Cardinality(Entries(routes)) < MaxRoutes \/ Bound(routes, method, path)
        /\ routes' = r.routes
        /\ last' = Called(op, method, path, handler, r.ret, NoRequest, NoOutcome)
        /\ first' = IF Has(first, <<method, path>>) THEN first
                    ELSE Set(first, <<method, path>>, handler)

Route ==
    \E method \in Methods, path \in Paths, handler \in RouterHandlers :
        /\ Register("route", method, path, handler)
        /\ UNCHANGED <<error_handler, server, listening, set_before>>
        /\ UNCHANGED guard_vars

Handle ==
    \E req \in RouterRequests :
        /\ last' = Called("handle", req.method, Pathname(req.url), "", FALSE,
                          req, handle(routes, req))
        /\ UNCHANGED <<routes, error_handler, server, listening, first, set_before>>
        /\ UNCHANGED guard_vars

RouterInit == AppInit /\ GuardIdle
RouterNext == Route \/ Handle
SpecRouter == RouterInit /\ [][RouterNext]_vars

----------------------------------------------------------------------------
(* The application specification: a Torchflower app (router.ts)             *)

ErrorHandlers == {"custom"}

Bodies ==
    {Null, Str("x"), Arr, Obj(UndefinedS, StrS("Medium"))}
        \cup {Obj(n, p) :
                n \in {StrS("x"), NumS(0)},
                p \in {UndefinedS, StrS("Critical"), StrS("Medium"),
                       StrS("Low"), StrS("Urgent")}}

AppRequests ==
    {Request(m, Url(p, ""), b) : m \in {"GET", "POST"}, p \in Paths, b \in Bodies}

\* Torchflower.get
Get ==
    \E path \in Paths, handler \in Handlers :
        /\ Register("get", "GET", path, handler)
        /\ UNCHANGED <<error_handler, server, listening, set_before>>
        /\ UNCHANGED guard_vars

\* Torchflower.post
Post ==
    \E path \in Paths, handler \in Handlers :
        /\ Register("post", "POST", path, handler)
        /\ UNCHANGED <<error_handler, server, listening, set_before>>
        /\ UNCHANGED guard_vars

\* the handler field after set_error_handler(handler)
set_error_handler(is_listening, current, handler) ==
    IF ~is_listening THEN current ELSE handler

SetErrorHandler ==
    \E handler \in ErrorHandlers :
        /\ error_handler' = set_error_handler(listening, error_handler, handler)
        /\ set_before' = IF server.started THEN set_before ELSE handler
        /\ last' = Called("set_error_handler", "", "", handler, FALSE,
                          NoRequest, NoOutcome)
        /\ UNCHANGED <<routes, server, listening, first>>
        /\ UNCHANGED guard_vars

\* Torchflower.serve
Serve ==
    /\ server' = [started |-> TRUE, error |-> error_handler]
    /\ listening' = TRUE
    /\ last' = Called("serve", "", "", "", FALSE, NoRequest, NoOutcome)
    /\ UNCHANGED <<routes, error_handler, first, set_before>>
    /\ UNCHANGED guard_vars

\* a request arriving at the started server
Fetch ==
    \E req \in AppRequests :
        /\ server.started
        /\ last' = Called("fetch", req.method, Pathname(req.url),
                          IF Bound(routes, req.method, Pathname(req.url))
                          THEN routes[req.method][Pathname(req.url)] ELSE "",
                          FALSE, req, fetch(routes, server.error, req))
        /\ UNCHANGED <<routes, error_handler, server, listening, first, set_before>>
        /\ UNCHANGED guard_vars

ServerInit == AppInit /\ GuardIdle
ServerNext == Get \/ Post \/ SetErrorHandler \/ Serve \/ Fetch
SpecApp == ServerInit /\ [][ServerNext]_vars

----------------------------------------------------------------------------
(* Router and application claims *)

\* C1: every (method, path) pair stays bound to the handler of the first
\* route call for it: that call returns true and binds it, every later
\* route call for the pair returns false and leaves the table unchanged.
C1_FirstRouteWins ==
    [][ last'.op = "route" =>
          LET m == last'.method
              p == last'.path
          IN  /\ IF Bound(routes, m, p)
                 THEN last'.ret = FALSE /\ routes' = routes
                 ELSE /\ last'.ret = TRUE
                      /\ Bound(routes', m, p)
                      /\ routes'[m][p] = last'.handler
              /\ \A pair \in DOMAIN first' :
                    /\ Bound(routes', pair[1], pair[2])
                    /\ routes'[pair[1]][pair[2]] = first'[pair]
      ]_vars

C1_Witness ==
    /\ last.op = "route"
    /\ last.ret = FALSE
    /\ Bound(routes, last.method, last.path)
    /\ routes[last.method][last.path] # last.handler
    /\ routes[last.method][last.path] = first[<<last.method, last.path>>]

\* C2: handle returns the not-found response and invokes no handler when the
\* method has no routes or the exact path has no handler under the method;
\* otherwise it invokes the handler bound to (method, exact path) once and
\* has exactly that handler's result.
C2_HandleDispatchesExactly ==
    last.op = "handle" =>
        LET req == last.req
            out == last.out
        IN  IF ~Has(routes, req.method) \/ ~Has(routes[req.method], req.url.pathname)
            THEN out.resp = NotFound /\ out.invoked = <<>> /\ ~out.threw
            ELSE LET h == routes[req.method][req.url.pathname]
                 IN  /\ out.invoked = <<h>>
                     /\ out = RunHandler(h, req)

C2_Witness ==
    /\ last.op = "handle"
    /\ last.req.url = Url("/task", "?q=1")
    /\ Bound(routes, last.req.method, "/task")
    /\ last.out.invoked = <<routes[last.req.method]["/task"]>>
    /\ last.out.resp = Hello

\* the route table of example.ts
TaskApplication ==
    routes = Set(Set(EmptyMap, "GET", Set(EmptyMap, "/", "hello")),
                 "POST", Set(EmptyMap, "/task", "task"))

\* an object whose name is a string and whose priority is one of the three
ValidTask(body) ==
    /\ body.t = "object"
    /\ body.name.t = "string"
    /\ body.priority \in {StrS("Critical"), StrS("Medium"), StrS("Low")}

\* C8: in the task application a POST to "/task" answers "200 OK" exactly
\* when the body is a valid task and "400 Bad Request" for every other body,
\* and a GET to "/task" answers not-found.
C8_TaskApplication ==
    (last.op = "fetch" /\ TaskApplication) =>
        /\ (last.req.method = "POST" /\ last.req.url.pathname = "/task") =>
              last.out.resp = IF ValidTask(last.req.body) THEN Ok200 ELSE BadRequest
        /\ (last.req.method = "GET" /\ last.req.url.pathname = "/task") =>
              last.out.resp = NotFound

C8_Witness ==
    /\ last.op = "fetch"
    /\ TaskApplication
    /\ last.req.method = "POST"
    /\ last.req.url.pathname = "/task"
    /\ last.req.body = Obj(StrS("x"), StrS("Medium"))
    /\ last.out.resp = Ok200

\* C9: when set_error_handler(h) was called before serve, the server uses h
\* for a route handler that throws.
C9_HandlerSetBeforeServeIsUsed ==
    (last.op = "fetch" /\ last.out.threw /\ set_before # "") =>
        last.out.errored_by = set_before

\* C10: an invalid body given to an unchecked validator escapes the handler
\* and Router.handle and is answered by the server's error handler (the 500
\* response of the default handler), never by a client-error response; given
\* to the checked validator it does not escape and the handler receives null.
C10_UncheckedFailureIsServerError ==
    (last.op = "fetch" /\ ~ValidTask(last.req.body)) =>
        /\ last.handler = "task_unchecked" =>
              /\ last.out.threw
              /\ last.out.errored_by = server.error
              /\ last.out.resp = RunErrorHandler(server.error)
              /\ server.error = "default" => last.out.resp = InternalServerError
              /\ last.out.resp \notin {BadRequest, NotFound, Ok200}
        /\ last.handler = "task" =>
              /\ ~last.out.threw
              /\ last.out.errored_by = ""
              /\ last.out.metadata = Null
              /\ last.out.resp = BadRequest

C10_Witness ==
    /\ last.op = "fetch"
    /\ last.handler = "task_unchecked"
    /\ last.req.body = Obj(StrS("x"), StrS("Urgent"))
    /\ last.out.threw
    /\ last.out.resp = InternalServerError

====
